---- MODULE Spec2Model ----
(***************************************************************************)
(* RSVP / capacity arbitration of the Pulse event platform.                *)
(*                                                                         *)
(* The state is the two tables the RSVP route works on (events and         *)
(* event_rsvps) plus, for every request handler, its position in           *)
(* POST /api/events/:id/rsvp and the locals it holds across its awaits.    *)
(* Every await of the handler is one step, so that handlers of concurrent  *)
(* requests interleave exactly where the Node event loop lets them.        *)
(* The routes that manage an event (POST, PATCH and DELETE /api/events)    *)
(* write the events table once and are one step each.                      *)
(***************************************************************************)
EXTENDS Bags, FiniteSets, Integers, Sequences, TLC

\* ---------------------------------------------------------------- bounds
NumHandlers == 2
NumUsers == 2
NumCreators == 1
NumEvents == 1
MaxCapacity == 1
MaxRequests == 3
MaxSerialRequests == 4
MaxUpdateRequests == 3
MaxMailRequests == 3
MaxManageRequests == 3
MaxWaitlistRequests == 2
MaxFrameRequests == 2
NumRacers == 3

Handlers == 1..NumHandlers
Users == 1..NumUsers
\* The users who create events.
Creators == 1..NumCreators
\* Ids a request may name; an id names no event until the event is created.
EventIds == 1..NumEvents
Racers == 1..NumRacers

\* ------------------------------------------------------- nullable column
\* events.capacity is a nullable integer: Null, or Some(n).
Null == <<>>
Some(n) == <<n>>
\* The column is a plain integer and no handler refuses a negative value.
\* Every negative capacity decides alike (it is truthy and no count is below
\* it), so -1 stands for all of them.
Capacities == {Null} \cup {Some(n) : n \in -1..MaxCapacity}

\* The statusEnum a POST /events body may carry: the column is free text
\* and insertEventSchema lets the field through; "active" is what a body
\* without the field gets by default.  No handler reads the column, so one
\* other value stands for all of them.
BodyEventStatuses == {"active", "cancelled"}

\* What the column holds for a body that carries no statusEnum.
DefaultEventStatus == "active"

\* The capacity field of a PATCH body: absent, JSON null, or a number.
Absent == [kind |-> "absent"]
JsonNull == [kind |-> "null"]
Number(n) == [kind |-> "number", value |-> n]
BodyCapacities == {Absent, JsonNull} \cup {Number(n) : n \in -1..MaxCapacity}

\* A PATCH body: whether it carries the required title, startAt and endAt,
\* and its capacity field.
PatchBodies == [required : BOOLEAN, capacity : BodyCapacities]

\* The request body's status as a client may send it; only "yes" and "no"
\* pass z.enum(["yes", "no"]).
BodyStatuses == {"yes", "no", "maybe"}

VARIABLES
    events,        \* table events: set of rows [id, capacity, creatorUserId, statusEnum]
    eventRsvps,    \* table event_rsvps: bag of rows [eventId, userId, statusEnum]
    pc,            \* per handler: the await it is suspended at
    req,           \* per handler: user.id, req.params.id, body.status
    event,         \* per handler: const event (set holding the row, {} = undefined)
    finalStatus,   \* per handler: const finalStatus
    existingRsvp,  \* per handler: const existingRsvp (set holding the row, {} = undefined)
    res,           \* per handler: the response it sent
    mail,          \* per handler: the notification it handed to emailService
    modified,      \* per handler, history: its write changed a stored RSVP row
    delivered,     \* the latest sendEmail call: "none" before the first, "pending"
                   \* until it settles, then "sent" (true) or "failed" (false)
    requests       \* number of requests the server has accepted so far

locals == <<event, finalStatus, existingRsvp, modified>>
outbox == <<mail, delivered>>
vars == <<events, eventRsvps, pc, req, event, finalStatus, existingRsvp, modified, res, mail,
          delivered, requests>>

NoReq == [route |-> "none", userId |-> 0, eventId |-> 0, status |-> "none"]
NoRes == [code |-> 0, status |-> "none", message |-> "none"]

\* ---------------------------------------------------------------- storage
getEvent(id) == {r \in events : r.id = id}

RsvpRow(eventId, userId, status) ==
    [eventId |-> eventId, userId |-> userId, statusEnum |-> status]

\* The rows of (eventId, userId), as a bag.
UserRsvps(eventId, userId) ==
    LET D == {r \in DOMAIN eventRsvps : r.eventId = eventId /\ r.userId = userId}
    IN  [r \in D |-> eventRsvps[r]]

\* The rows the query matches; limit(1) hands back any one of them.
getUserRsvp(eventId, userId) == BagToSet(UserRsvps(eventId, userId))
LimitOne(rows) == IF rows = {} THEN {{}} ELSE {{r} : r \in rows}

createRsvp(rsvp) == eventRsvps (+) SetToBag({rsvp})

\* Variant: the update's where clause names the user only.
updateRsvpAllEvents(eventId, userId, status) ==
    LET Set(r) == IF r.userId = userId
                  THEN [r EXCEPT !.statusEnum = status]
                  ELSE r
    IN  BagOfAll(Set, eventRsvps)

updateRsvp(eventId, userId, status) ==
    LET Set(r) == IF r.eventId = eventId /\ r.userId = userId
                  THEN [r EXCEPT !.statusEnum = status]
                  ELSE r
    IN  BagOfAll(Set, eventRsvps)

StatusCount(eventId, status) ==
    LET D == {r \in DOMAIN eventRsvps : r.eventId = eventId /\ r.statusEnum = status}
    IN  BagCardinality([r \in D |-> eventRsvps[r]])

\* select status, count(*) ... where event_id = eventId group by status:
\* one result row per status that occurs among the event's rows.
GroupByStatus(eventId) ==
    {[status |-> s, count |-> StatusCount(eventId, s)] :
        s \in {r.statusEnum : r \in {x \in DOMAIN eventRsvps : x.eventId = eventId}}}

\* The count of the result row of one status, or the default 0.
CountOr0(result, status) ==
    IF \E row \in result : row.status = status
    THEN (CHOOSE row \in result : row.status = status).count
    ELSE 0

\* Variant: cancelled rows are counted as confirmed.
getEventRsvpCountCancelled(eventId) ==
    LET result == GroupByStatus(eventId)
    IN  [confirmed |-> CountOr0(result, "yes") + CountOr0(result, "cancelled"),
         waitlist  |-> CountOr0(result, "waitlist")]

getEventRsvpCount(eventId) ==
    LET result == GroupByStatus(eventId)
    IN  [confirmed |-> CountOr0(result, "yes"),
         waitlist  |-> CountOr0(result, "waitlist")]

\* What the tables say about one (event, user) pair and one event.
RowCount(eventId, userId) == BagCardinality(UserRsvps(eventId, userId))
UserStatuses(eventId, userId) == {r.statusEnum : r \in getUserRsvp(eventId, userId)}
EventRowCount(eventId) ==
    LET D == {r \in DOMAIN eventRsvps : r.eventId = eventId}
    IN  BagCardinality([r \in D |-> eventRsvps[r]])
OtherRsvps(eventId, userId) ==
    LET D == {r \in DOMAIN eventRsvps : ~(r.eventId = eventId /\ r.userId = userId)}
    IN  [r \in D |-> eventRsvps[r]]
Min(a, b) == IF a < b THEN a ELSE b

\* ------------------------------------------------------------ arbitration
\* JavaScript truthiness of event.capacity: null and 0 are falsy.
Truthy(capacity) == capacity # Null /\ capacity[1] # 0

FinalStatus(capacity, confirmed) ==
    IF Truthy(capacity) /\ confirmed >= capacity[1] THEN "waitlist" ELSE "yes"

Respond(p, code, status, message) ==
    /\ res' = [res EXCEPT ![p] = [code |-> code, status |-> status, message |-> message]]
    /\ pc' = [pc EXCEPT ![p] = "done"]
    /\ event' = [event EXCEPT ![p] = {}]
    /\ finalStatus' = [finalStatus EXCEPT ![p] = "none"]
    /\ existingRsvp' = [existingRsvp EXCEPT ![p] = {}]
    /\ modified' = [modified EXCEPT ![p] = FALSE]

\* The write the handler awaited has changed the table, or has stored
\* what was there already.
Wrote(p) ==
    /\ modified' = [modified EXCEPT ![p] = (eventRsvps' # eventRsvps)]
    /\ UNCHANGED <<event, finalStatus, existingRsvp>>

Quiescent == \A p \in DOMAIN pc : pc[p] \in {"idle", "done"}

\* A request is served by a handler of its own; the model gives it the first
\* one that is not running.
FirstFree(p) ==
    /\ pc[p] \in {"idle", "done"}
    /\ \A q \in DOMAIN pc : q < p => pc[q] \notin {"idle", "done"}

\* ------------------------------------------------------------ emailService
\* The handler calls the email method and does not wait for it: the call
\* is pending when the handler answers.
sendEmail(p, kind) ==
    /\ mail' = [mail EXCEPT ![p] = kind]
    /\ delivered' = "pending"

\* sendEmail resolves to true or false and never rejects: a transport error
\* is caught and logged.  It settles in a step of its own, after the
\* handler that called it has answered.
EmailSettles ==
    /\ delivered = "pending"
    /\ delivered' \in {"sent", "failed"}
    /\ UNCHANGED <<events, eventRsvps, pc, req, locals, res, mail, requests>>

\* Variant: every confirmation email says confirmed.
ConfirmationKindAlways(status) == "confirmed"

\* The status argument of sendRsvpConfirmationEmail.
ConfirmationKind(status) == IF status = "yes" THEN "confirmed" ELSE "waitlist"

\* ------------------------------------------------------------ POST /events
EventRow(id, capacity, userId, statusEnum) ==
    [id |-> id, capacity |-> capacity, creatorUserId |-> userId, statusEnum |-> statusEnum]

\* The handler's other awaits (the company lookup before the insert, the
\* analytics insert after it) touch no table of the model and its response
\* is not kept, so the request is one step, at its insert.
PostEvent(userId, capacity, statusEnum) ==
    /\ Cardinality(events) < NumEvents
    /\ events' = events \cup {EventRow(Cardinality(events) + 1, capacity, userId, statusEnum)}
    /\ requests' = requests + 1
    /\ UNCHANGED <<eventRsvps, pc, req, locals, res, outbox>>

\* ------------------------------------------------- POST /events/:id/rsvp
Accept(p, userId, eventId, status) ==
    /\ FirstFree(p)
    /\ requests' = requests + 1
    /\ req' = [req EXCEPT ![p] = [route |-> "rsvp", userId |-> userId,
                                  eventId |-> eventId, status |-> status]]
    /\ mail' = [mail EXCEPT ![p] = "none"]
    /\ IF status \notin {"yes", "no"}
       THEN Respond(p, 400, "none", "Invalid RSVP data")
       ELSE /\ pc' = [pc EXCEPT ![p] = IF status = "no" THEN "leaveGetUserRsvp" ELSE "joinGetEvent"]
            /\ res' = [res EXCEPT ![p] = NoRes]
            /\ UNCHANGED locals
    /\ UNCHANGED <<events, eventRsvps, delivered>>

\* Variant: a leave that finds no row records the cancellation as a new row.
LeaveGetUserRsvpInsert(p) ==
    /\ pc[p] = "leaveGetUserRsvp"
    /\ \E found \in LimitOne(getUserRsvp(req[p].eventId, req[p].userId)) :
           /\ existingRsvp' = [existingRsvp EXCEPT ![p] = found]
           /\ pc' = [pc EXCEPT ![p] = IF found # {} THEN "leaveUpdateRsvp" ELSE "leaveGetEvent"]
           /\ eventRsvps' = IF found # {} THEN eventRsvps
                            ELSE createRsvp(RsvpRow(req[p].eventId, req[p].userId, "cancelled"))
    /\ UNCHANGED <<events, req, event, finalStatus, modified, res, requests, outbox>>

\* Variant: a leave that finds no row is refused.
LeaveGetUserRsvpStrict(p) ==
    /\ pc[p] = "leaveGetUserRsvp"
    /\ IF getUserRsvp(req[p].eventId, req[p].userId) # {}
       THEN /\ \E found \in LimitOne(getUserRsvp(req[p].eventId, req[p].userId)) :
                   existingRsvp' = [existingRsvp EXCEPT ![p] = found]
            /\ pc' = [pc EXCEPT ![p] = "leaveUpdateRsvp"]
            /\ UNCHANGED <<event, finalStatus, modified, res>>
       ELSE Respond(p, 404, "none", "RSVP not found")
    /\ UNCHANGED <<events, eventRsvps, req, requests, outbox>>

LeaveGetUserRsvp(p) ==
    /\ pc[p] = "leaveGetUserRsvp"
    /\ \E found \in LimitOne(getUserRsvp(req[p].eventId, req[p].userId)) :
           /\ existingRsvp' = [existingRsvp EXCEPT ![p] = found]
           /\ pc' = [pc EXCEPT ![p] = IF found # {} THEN "leaveUpdateRsvp" ELSE "leaveGetEvent"]
    /\ UNCHANGED <<events, eventRsvps, req, event, finalStatus, modified, res, requests, outbox>>

\* Variant: the cancellation promotes a waitlisted user of the event.
LeaveUpdateRsvpPromote(p) ==
    /\ pc[p] = "leaveUpdateRsvp"
    /\ LET e == req[p].eventId
           W == {r.userId : r \in {x \in DOMAIN eventRsvps :
                     x.eventId = e /\ x.userId # req[p].userId /\ x.statusEnum = "waitlist"}}
           Set(r) == IF r.eventId = e /\ r.userId = req[p].userId
                     THEN [r EXCEPT !.statusEnum = "cancelled"]
                     ELSE IF W # {} /\ r.eventId = e /\ r.userId = (CHOOSE w \in W : TRUE)
                          THEN [r EXCEPT !.statusEnum = "yes"]
                          ELSE r
       IN  eventRsvps' = BagOfAll(Set, eventRsvps)
    /\ pc' = [pc EXCEPT ![p] = "leaveTrack"]
    /\ Wrote(p)
    /\ UNCHANGED <<events, req, res, requests, outbox>>

\* Variant: the leave deletes the caller's rows.
LeaveUpdateRsvpDelete(p) ==
    /\ pc[p] = "leaveUpdateRsvp"
    /\ eventRsvps' = OtherRsvps(req[p].eventId, req[p].userId)
    /\ pc' = [pc EXCEPT ![p] = "leaveTrack"]
    /\ Wrote(p)
    /\ UNCHANGED <<events, req, res, requests, outbox>>

\* Variant: the leave stores the status as the request sent it.
LeaveUpdateRsvpAsSent(p) ==
    /\ pc[p] = "leaveUpdateRsvp"
    /\ eventRsvps' = updateRsvp(req[p].eventId, req[p].userId, req[p].status)
    /\ pc' = [pc EXCEPT ![p] = "leaveTrack"]
    /\ Wrote(p)
    /\ UNCHANGED <<events, req, res, requests, outbox>>

LeaveUpdateRsvp(p) ==
    /\ pc[p] = "leaveUpdateRsvp"
    /\ eventRsvps' = updateRsvp(req[p].eventId, req[p].userId, "cancelled")
    /\ pc' = [pc EXCEPT ![p] = "leaveTrack"]
    /\ Wrote(p)
    /\ UNCHANGED <<events, req, res, requests, outbox>>

LeaveTrack(p) ==
    /\ pc[p] = "leaveTrack"
    /\ pc' = [pc EXCEPT ![p] = "leaveGetEvent"]
    /\ UNCHANGED <<events, eventRsvps, req, locals, res, requests, outbox>>

LeaveGetEvent(p) ==
    /\ pc[p] = "leaveGetEvent"
    /\ IF getEvent(req[p].eventId) # {}
       THEN sendEmail(p, "cancelled")
       ELSE UNCHANGED outbox
    /\ Respond(p, 200, "none", "RSVP cancelled")
    /\ UNCHANGED <<events, eventRsvps, req, requests>>

\* Variant: the RSVP is recorded before the event is looked up.
JoinGetEventWriteFirst(p) ==
    /\ pc[p] = "joinGetEvent"
    /\ IF getEvent(req[p].eventId) = {}
       THEN /\ Respond(p, 404, "none", "Event not found")
            /\ eventRsvps' = createRsvp(RsvpRow(req[p].eventId, req[p].userId, "yes"))
       ELSE /\ event' = [event EXCEPT ![p] = getEvent(req[p].eventId)]
            /\ pc' = [pc EXCEPT ![p] = "joinCount"]
            /\ UNCHANGED <<finalStatus, existingRsvp, modified, res, eventRsvps>>
    /\ UNCHANGED <<events, req, requests, outbox>>

\* Variant: the event is read through a projection without its capacity.
JoinGetEventNoCapacity(p) ==
    /\ pc[p] = "joinGetEvent"
    /\ IF getEvent(req[p].eventId) = {}
       THEN Respond(p, 404, "none", "Event not found")
       ELSE /\ event' = [event EXCEPT ![p] =
                            {[r EXCEPT !.capacity = Null] : r \in getEvent(req[p].eventId)}]
            /\ pc' = [pc EXCEPT ![p] = "joinCount"]
            /\ UNCHANGED <<finalStatus, existingRsvp, modified, res>>
    /\ UNCHANGED <<events, eventRsvps, req, requests, outbox>>

JoinGetEvent(p) ==
    /\ pc[p] = "joinGetEvent"
    /\ IF getEvent(req[p].eventId) = {}
       THEN Respond(p, 404, "none", "Event not found")
       ELSE /\ event' = [event EXCEPT ![p] = getEvent(req[p].eventId)]
            /\ pc' = [pc EXCEPT ![p] = "joinCount"]
            /\ UNCHANGED <<finalStatus, existingRsvp, modified, res>>
    /\ UNCHANGED <<events, eventRsvps, req, requests, outbox>>

\* Variant: a user joining while others of the event are waitlisted queues
\* behind them.
JoinCountWaitlistFirst(p) ==
    /\ pc[p] = "joinCount"
    /\ LET rsvpCounts == getEventRsvpCount(req[p].eventId)
           ev == CHOOSE r \in event[p] : TRUE
           queued == \E r \in DOMAIN eventRsvps :
                         /\ r.eventId = req[p].eventId /\ r.userId # req[p].userId
                         /\ r.statusEnum = "waitlist"
       IN  finalStatus' = [finalStatus EXCEPT ![p] =
               IF queued THEN "waitlist" ELSE FinalStatus(ev.capacity, rsvpCounts.confirmed)]
    /\ pc' = [pc EXCEPT ![p] = "joinGetUserRsvp"]
    /\ UNCHANGED <<events, eventRsvps, req, event, existingRsvp, modified, res, requests, outbox>>

JoinCount(p) ==
    /\ pc[p] = "joinCount"
    /\ LET rsvpCounts == getEventRsvpCount(req[p].eventId)
           ev == CHOOSE r \in event[p] : TRUE
       IN  finalStatus' = [finalStatus EXCEPT ![p] = FinalStatus(ev.capacity, rsvpCounts.confirmed)]
    /\ pc' = [pc EXCEPT ![p] = "joinGetUserRsvp"]
    /\ UNCHANGED <<events, eventRsvps, req, event, existingRsvp, modified, res, requests, outbox>>

JoinGetUserRsvp(p) ==
    /\ pc[p] = "joinGetUserRsvp"
    /\ \E found \in LimitOne(getUserRsvp(req[p].eventId, req[p].userId)) :
           existingRsvp' = [existingRsvp EXCEPT ![p] = found]
    /\ pc' = [pc EXCEPT ![p] = "joinWrite"]
    /\ UNCHANGED <<events, eventRsvps, req, event, finalStatus, modified, res, requests, outbox>>

\* Variant: the join always inserts, whether or not a row exists.
JoinWriteAlwaysInsert(p) ==
    /\ pc[p] = "joinWrite"
    /\ eventRsvps' = createRsvp(RsvpRow(req[p].eventId, req[p].userId, finalStatus[p]))
    /\ pc' = [pc EXCEPT ![p] = "joinTrack"]
    /\ Wrote(p)
    /\ UNCHANGED <<events, req, res, requests, outbox>>

\* Variant: the insert of a new row is issued twice.
JoinWriteTwice(p) ==
    /\ pc[p] = "joinWrite"
    /\ eventRsvps' = IF existingRsvp[p] # {}
                     THEN updateRsvp(req[p].eventId, req[p].userId, finalStatus[p])
                     ELSE createRsvp(RsvpRow(req[p].eventId, req[p].userId, finalStatus[p]))
                              (+) SetToBag({RsvpRow(req[p].eventId, req[p].userId, finalStatus[p])})
    /\ pc' = [pc EXCEPT ![p] = "joinTrack"]
    /\ Wrote(p)
    /\ UNCHANGED <<events, req, res, requests, outbox>>

\* Variant: a join whose decision no longer matches the ledger goes back
\* to counting instead of writing.
JoinWriteRetry(p) ==
    /\ pc[p] = "joinWrite"
    /\ IF finalStatus[p] = FinalStatus((CHOOSE r \in event[p] : TRUE).capacity,
                                       getEventRsvpCount(req[p].eventId).confirmed)
       THEN /\ eventRsvps' = IF existingRsvp[p] # {}
                             THEN updateRsvp(req[p].eventId, req[p].userId, finalStatus[p])
                             ELSE createRsvp(RsvpRow(req[p].eventId, req[p].userId, finalStatus[p]))
            /\ pc' = [pc EXCEPT ![p] = "joinTrack"]
       ELSE /\ UNCHANGED eventRsvps
            /\ pc' = [pc EXCEPT ![p] = "joinCount"]
    /\ Wrote(p)
    /\ UNCHANGED <<events, req, res, requests, outbox>>

JoinWrite(p) ==
    /\ pc[p] = "joinWrite"
    /\ eventRsvps' = IF existingRsvp[p] # {}
                     THEN updateRsvp(req[p].eventId, req[p].userId, finalStatus[p])
                     ELSE createRsvp(RsvpRow(req[p].eventId, req[p].userId, finalStatus[p]))
    /\ pc' = [pc EXCEPT ![p] = "joinTrack"]
    /\ Wrote(p)
    /\ UNCHANGED <<events, req, res, requests, outbox>>

\* Variant: the handler awaits the email and fails the request when the
\* email could not be sent, undoing the RSVP.
JoinTrackRollback(p) ==
    /\ pc[p] = "joinTrack"
    /\ mail' = [mail EXCEPT ![p] = ConfirmationKind(finalStatus[p])]
    /\ delivered' \in {"sent", "failed"}
    /\ IF delivered' = "failed"
       THEN /\ eventRsvps' = updateRsvp(req[p].eventId, req[p].userId, "cancelled")
            /\ Respond(p, 500, "none", "Failed to RSVP")
       ELSE /\ UNCHANGED eventRsvps
            /\ Respond(p, 200, finalStatus[p],
                       IF finalStatus[p] = "yes" THEN "RSVP confirmed" ELSE "Added to waitlist")
    /\ UNCHANGED <<events, req, requests>>

JoinTrack(p) ==
    /\ pc[p] = "joinTrack"
    /\ sendEmail(p, ConfirmationKind(finalStatus[p]))
    /\ Respond(p, 200, finalStatus[p],
               IF finalStatus[p] = "yes" THEN "RSVP confirmed" ELSE "Added to waitlist")
    /\ UNCHANGED <<events, eventRsvps, req, requests>>

\* ------------------------------------------- DELETE, PATCH /events/:id
\* updateEventSchema.parse: title, startAt and endAt are required, and
\* capacity is z.number().optional(), which rejects null.
updateEventSchema(body) == body.required /\ body.capacity.kind \in {"absent", "number"}

\* Variant: the caller is not checked against the creator.
ManageEventUnchecked(p, route, userId, eventId, valid, denied, failed) ==
    /\ FirstFree(p)
    /\ requests' = requests + 1
    /\ req' = [req EXCEPT ![p] = [route |-> route, userId |-> userId,
                                  eventId |-> eventId, status |-> "none"]]
    /\ mail' = [mail EXCEPT ![p] = "none"]
    /\ IF getEvent(eventId) = {}
       THEN Respond(p, 404, "none", "Event not found")
       ELSE IF ~valid
            THEN Respond(p, 400, "none", "Invalid event data")
            ELSE Respond(p, 500, "none", failed)
    /\ UNCHANGED <<events, eventRsvps, delivered>>

\* The handlers await the event, check the caller against its creator,
\* validate the body (PATCH) and then call storage.getEventAttendees
\* (DELETE) or storage.updateEvent (PATCH).  The storage defines neither
\* method, so the call throws before anything is written or sent and the
\* catch block answers 500: the handler is one step, after its only await.
ManageEvent(p, route, userId, eventId, valid, denied, failed) ==
    /\ FirstFree(p)
    /\ requests' = requests + 1
    /\ req' = [req EXCEPT ![p] = [route |-> route, userId |-> userId,
                                  eventId |-> eventId, status |-> "none"]]
    /\ mail' = [mail EXCEPT ![p] = "none"]
    /\ IF getEvent(eventId) = {}
       THEN Respond(p, 404, "none", "Event not found")
       ELSE IF (CHOOSE r \in getEvent(eventId) : TRUE).creatorUserId # userId
            THEN Respond(p, 403, "none", denied)
            ELSE IF ~valid
                 THEN Respond(p, 400, "none", "Invalid event data")
                 ELSE Respond(p, 500, "none", failed)
    /\ UNCHANGED <<events, eventRsvps, delivered>>

DeleteEvent(p, userId, eventId) ==
    ManageEvent(p, "delete", userId, eventId, TRUE,
                "Only event creator can cancel this event", "Failed to cancel event")

PatchEvent(p, userId, eventId, body) ==
    ManageEvent(p, "patch", userId, eventId, updateEventSchema(body),
                "Only event creator can edit this event", "Failed to update event")

\* Requests arrive at any time, also while others are being handled.
CreateEvent(userId, capacity, statusEnum) ==
    /\ requests < MaxRequests
    /\ PostEvent(userId, capacity, statusEnum)

Request(p, userId, eventId, status) ==
    /\ requests < MaxRequests
    /\ Accept(p, userId, eventId, status)

\* Requests issued one after another, cancellations of events included: a
\* request starts only when every earlier one has been answered.
SerialCreateEvent(userId, capacity, statusEnum) ==
    /\ Quiescent
    /\ requests < MaxSerialRequests
    /\ PostEvent(userId, capacity, statusEnum)

SerialCancelRequest(p, userId, eventId) ==
    /\ Quiescent
    /\ requests < MaxSerialRequests
    /\ DeleteEvent(p, userId, eventId)

\* Events being created, joined and updated, one request after another.
UpdateCreateEvent(userId, capacity, statusEnum) ==
    /\ Quiescent
    /\ requests < MaxUpdateRequests
    /\ PostEvent(userId, capacity, statusEnum)

UpdateJoin(p, userId, eventId) ==
    /\ Quiescent
    /\ requests < MaxUpdateRequests
    /\ Accept(p, userId, eventId, "yes")

UpdateRequest(p, userId, eventId, body) ==
    /\ Quiescent
    /\ requests < MaxUpdateRequests
    /\ PatchEvent(p, userId, eventId, body)

SerialRequest(p, userId, eventId, status) ==
    /\ Quiescent
    /\ requests < MaxSerialRequests
    /\ Accept(p, userId, eventId, status)

\* Events being created, joined, cancelled and updated by any user, one
\* request after another.
ManageCreateEvent(userId, capacity, statusEnum) ==
    /\ Quiescent
    /\ requests < MaxManageRequests
    /\ PostEvent(userId, capacity, statusEnum)

ManageJoin(p, userId, eventId) ==
    /\ Quiescent
    /\ requests < MaxManageRequests
    /\ Accept(p, userId, eventId, "yes")

ManageCancelRequest(p, userId, eventId) ==
    /\ Quiescent
    /\ requests < MaxManageRequests
    /\ DeleteEvent(p, userId, eventId)

ManageUpdateRequest(p, userId, eventId, body) ==
    /\ Quiescent
    /\ requests < MaxManageRequests
    /\ PatchEvent(p, userId, eventId, body)

LeaveStep(p) ==
    \/ LeaveGetUserRsvp(p)
    \/ LeaveUpdateRsvp(p)
    \/ LeaveTrack(p)
    \/ LeaveGetEvent(p)

JoinStep(p) ==
    \/ JoinGetEvent(p)
    \/ JoinCount(p)
    \/ JoinGetUserRsvp(p)
    \/ JoinWrite(p)
    \/ JoinTrack(p)

Step(p) == LeaveStep(p) \/ JoinStep(p)

\* The storage call the handler is awaiting rejects (the database is
\* unreachable, a statement fails): the call has no effect, and the catch
\* block answers 500.
StorageFails(p) ==
    /\ pc[p] \notin {"idle", "done"}
    /\ Respond(p, 500, "none", "Failed to RSVP")
    /\ UNCHANGED <<events, eventRsvps, req, requests, outbox>>

\* ---------------------------------------------------------- specification
\* The server after start-up on an empty database: no handler is running.
Init ==
    /\ events = {}
    /\ eventRsvps = EmptyBag
    /\ pc = [p \in Handlers |-> "idle"]
    /\ req = [p \in Handlers |-> NoReq]
    /\ event = [p \in Handlers |-> {}]
    /\ finalStatus = [p \in Handlers |-> "none"]
    /\ existingRsvp = [p \in Handlers |-> {}]
    /\ modified = [p \in Handlers |-> FALSE]
    /\ res = [p \in Handlers |-> NoRes]
    /\ mail = [p \in Handlers |-> "none"]
    /\ delivered = "none"
    /\ requests = 0

\* RSVP requests arrive at any time and their handlers interleave at every
\* await.  The RSVP handler never reads an event's status, so the events
\* created here and in SerialSpec are stored with the default one; the other
\* serial specifications create events of every status.
Next ==
    \/ \E u \in Creators, capacity \in Capacities : CreateEvent(u, capacity, DefaultEventStatus)
    \/ \E p \in Handlers, u \in Users, e \in EventIds, s \in BodyStatuses : Request(p, u, e, s)
    \/ \E p \in Handlers : Step(p)

Spec == Init /\ [][Next]_vars

SerialNext ==
    \/ \E u \in Creators, capacity \in Capacities :
           SerialCreateEvent(u, capacity, DefaultEventStatus)
    \/ \E p \in Handlers, u \in Users, e \in EventIds, s \in BodyStatuses : SerialRequest(p, u, e, s)
    \/ \E p \in Handlers, u \in Users, e \in EventIds : SerialCancelRequest(p, u, e)
    \/ \E p \in Handlers : Step(p)

SerialSpec == Init /\ [][SerialNext]_vars

\* Serial requests, with the email calls they leave behind settling at any
\* later time.
MailCreateEvent(userId, capacity, statusEnum) ==
    /\ Quiescent
    /\ requests < MaxMailRequests
    /\ PostEvent(userId, capacity, statusEnum)

MailRequest(p, userId, eventId, status) ==
    /\ Quiescent
    /\ requests < MaxMailRequests
    /\ Accept(p, userId, eventId, status)

MailNext ==
    \/ \E u \in Creators, capacity \in Capacities, st \in BodyEventStatuses :
           MailCreateEvent(u, capacity, st)
    \/ \E p \in Handlers, u \in Users, e \in EventIds, s \in BodyStatuses : MailRequest(p, u, e, s)
    \/ \E p \in Handlers : Step(p)
    \/ EmailSettles

MailSpec == Init /\ [][MailNext]_vars

\* Serial requests against a storage whose calls may fail.
FaultNext ==
    \/ \E u \in Creators, capacity \in Capacities, st \in BodyEventStatuses :
           SerialCreateEvent(u, capacity, st)
    \/ \E p \in Handlers, u \in Users, e \in EventIds, s \in BodyStatuses : SerialRequest(p, u, e, s)
    \/ \E p \in Handlers : Step(p)
    \/ \E p \in Handlers : StorageFails(p)

FaultSpec == Init /\ [][FaultNext]_vars

\* Distinct users joining one after another, each for the first time.
FreshJoin(p, userId, eventId) ==
    /\ getUserRsvp(eventId, userId) = {}
    /\ SerialRequest(p, userId, eventId, "yes")

OverflowNext ==
    \/ \E u \in Creators, capacity \in Capacities, st \in BodyEventStatuses :
           SerialCreateEvent(u, capacity, st)
    \/ \E p \in Handlers, u \in Users, e \in EventIds : FreshJoin(p, u, e)
    \/ \E p \in Handlers : JoinStep(p)

OverflowSpec == Init /\ [][OverflowNext]_vars

\* The update path: events are created, joined and updated serially.
UpdateNext ==
    \/ \E u \in Creators, capacity \in Capacities, st \in BodyEventStatuses :
           UpdateCreateEvent(u, capacity, st)
    \/ \E p \in Handlers, u \in Users, e \in EventIds : UpdateJoin(p, u, e)
    \/ \E p \in Handlers, u \in Users, e \in EventIds, body \in PatchBodies :
           UpdateRequest(p, u, e, body)
    \/ \E p \in Handlers : JoinStep(p)

UpdateSpec == Init /\ [][UpdateNext]_vars

\* Event management: creation, joins, cancellation and update, serially.
ManageNext ==
    \/ \E u \in Creators, capacity \in Capacities, st \in BodyEventStatuses :
           ManageCreateEvent(u, capacity, st)
    \/ \E p \in Handlers, u \in Users, e \in EventIds : ManageJoin(p, u, e)
    \/ \E p \in Handlers, u \in Users, e \in EventIds : ManageCancelRequest(p, u, e)
    \/ \E p \in Handlers, u \in Users, e \in EventIds, body \in PatchBodies :
           ManageUpdateRequest(p, u, e, body)
    \/ \E p \in Handlers : JoinStep(p)

ManageSpec == Init /\ [][ManageNext]_vars

\* The race: one event of capacity 1 without RSVPs, and NumRacers join
\* requests of distinct users all accepted before any of them has run.
RaceEvent == 1

RaceInit ==
    /\ events = {EventRow(RaceEvent, Some(1), 1, "active")}
    /\ eventRsvps = EmptyBag
    /\ pc = [p \in Racers |-> "joinGetEvent"]
    /\ req = [p \in Racers |-> [route |-> "rsvp", userId |-> p, eventId |-> RaceEvent,
                                 status |-> "yes"]]
    /\ event = [p \in Racers |-> {}]
    /\ finalStatus = [p \in Racers |-> "none"]
    /\ existingRsvp = [p \in Racers |-> {}]
    /\ modified = [p \in Racers |-> FALSE]
    /\ res = [p \in Racers |-> NoRes]
    /\ mail = [p \in Racers |-> "none"]
    /\ delivered = "none"
    /\ requests = NumRacers + 1

RaceNext == \E p \in Racers : JoinStep(p)

RaceSpec == RaceInit /\ [][RaceNext]_vars

\* The burst: NumRacers requests of distinct users on the capacity-1 event,
\* joins and leaves mixed, all accepted before any of them has run.  A
\* user who leaves holds a yes row; a user who joins holds none.  Every
\* handler whose awaited storage call has resolved is resumed by the event
\* loop, which is weak fairness of each handler's step.
BurstInit ==
    \E leavers \in SUBSET Racers :
        /\ events = {EventRow(RaceEvent, Some(1), 1, "active")}
        /\ eventRsvps = SetToBag({RsvpRow(RaceEvent, p, "yes") : p \in leavers})
        /\ pc = [p \in Racers |-> IF p \in leavers THEN "leaveGetUserRsvp" ELSE "joinGetEvent"]
        /\ req = [p \in Racers |-> [route |-> "rsvp", userId |-> p, eventId |-> RaceEvent,
                                     status |-> IF p \in leavers THEN "no" ELSE "yes"]]
        /\ event = [p \in Racers |-> {}]
        /\ finalStatus = [p \in Racers |-> "none"]
        /\ existingRsvp = [p \in Racers |-> {}]
        /\ modified = [p \in Racers |-> FALSE]
        /\ res = [p \in Racers |-> NoRes]
        /\ mail = [p \in Racers |-> "none"]
        /\ delivered = "none"
        /\ requests = NumRacers + 1

BurstNext == \E p \in Racers : Step(p)

BurstSpec ==
    /\ BurstInit
    /\ [][BurstNext]_vars
    /\ \A p \in Racers : WF_vars(Step(p))

\* The full event: the capacity-1 event after user 1 was confirmed and
\* users 2 .. NumRacers - 1 were waitlisted, in that order; user NumRacers
\* has no RSVP.  From there the users join and leave one after another.
WaitlistInit ==
    /\ events = {EventRow(RaceEvent, Some(1), 1, "active")}
    /\ eventRsvps = SetToBag({RsvpRow(RaceEvent, u, IF u = 1 THEN "yes" ELSE "waitlist")
                                 : u \in 1..(NumRacers - 1)})
    /\ pc = [p \in Handlers |-> "idle"]
    /\ req = [p \in Handlers |-> NoReq]
    /\ event = [p \in Handlers |-> {}]
    /\ finalStatus = [p \in Handlers |-> "none"]
    /\ existingRsvp = [p \in Handlers |-> {}]
    /\ modified = [p \in Handlers |-> FALSE]
    /\ res = [p \in Handlers |-> NoRes]
    /\ mail = [p \in Handlers |-> "none"]
    /\ delivered = "none"
    /\ requests = NumRacers

WaitlistRequest(p, userId, eventId, status) ==
    /\ Quiescent
    /\ requests < NumRacers + MaxWaitlistRequests
    /\ Accept(p, userId, eventId, status)

WaitlistNext ==
    \/ \E p \in Handlers, u \in Racers, s \in {"yes", "no"} : WaitlistRequest(p, u, RaceEvent, s)
    \/ \E p \in Handlers : Step(p)

WaitlistSpec == WaitlistInit /\ [][WaitlistNext]_vars

\* Two events with RSVPs: the capacity-1 event with user 1 confirmed and
\* user 2 waitlisted, and a second event without capacity that user 1 has
\* joined as well.  From there the users join and leave either event, one
\* request after another.
OtherEvent == 2

FrameInit ==
    /\ events = {EventRow(RaceEvent, Some(1), 1, DefaultEventStatus),
                 EventRow(OtherEvent, Null, 1, DefaultEventStatus)}
    /\ eventRsvps = SetToBag({RsvpRow(RaceEvent, 1, "yes"), RsvpRow(RaceEvent, 2, "waitlist"),
                              RsvpRow(OtherEvent, 1, "yes")})
    /\ pc = [p \in Handlers |-> "idle"]
    /\ req = [p \in Handlers |-> NoReq]
    /\ event = [p \in Handlers |-> {}]
    /\ finalStatus = [p \in Handlers |-> "none"]
    /\ existingRsvp = [p \in Handlers |-> {}]
    /\ modified = [p \in Handlers |-> FALSE]
    /\ res = [p \in Handlers |-> NoRes]
    /\ mail = [p \in Handlers |-> "none"]
    /\ delivered = "none"
    /\ requests = 5

FrameRequest(p, userId, eventId, status) ==
    /\ Quiescent
    /\ requests < 5 + MaxFrameRequests
    /\ Accept(p, userId, eventId, status)

FrameNext ==
    \/ \E p \in Handlers, u \in Users, e \in {RaceEvent, OtherEvent}, s \in {"yes", "no"} :
           FrameRequest(p, u, e, s)
    \/ \E p \in Handlers : Step(p)

FrameSpec == FrameInit /\ [][FrameNext]_vars

TypeOK ==
    /\ \A r \in events :
          /\ r.id \in EventIds \cup {RaceEvent, OtherEvent} /\ r.capacity \in Capacities
          /\ r.creatorUserId \in Users /\ r.statusEnum \in BodyEventStatuses
    /\ \A p \in DOMAIN pc : mail[p] \in {"none", "confirmed", "waitlist", "cancelled"}
    /\ delivered \in {"none", "pending", "sent", "failed"}
    /\ modified \in [DOMAIN pc -> BOOLEAN]
    /\ IsABag(eventRsvps)
    /\ \A p \in DOMAIN pc : finalStatus[p] \in {"none", "yes", "waitlist"}

\* ------------------------------------------------------------ properties
InFlight(p) == pc[p] \notin {"idle", "done"}
Capacity(eventId) == (CHOOSE r \in events : r.id = eventId).capacity
Available(eventId) ==
    ~Truthy(Capacity(eventId)) \/ StatusCount(eventId, "yes") < Capacity(eventId)[1]

\* C1: in every quiescent state (no join or leave in flight), every event
\* with a non-null capacity C has at most C RSVP rows with status yes.
C1_CapacityInvariant ==
    Quiescent =>
        \A ev \in events :
            ev.capacity # Null => StatusCount(ev.id, "yes") <= ev.capacity[1]

\* C2: when the racing joins of NumRacers distinct users on the capacity-1
\* event have all been answered, exactly one user is at yes and all the
\* others are at waitlist.
RaceDone == \A p \in DOMAIN pc : pc[p] = "done"

C2_RaceExactlyOneYes ==
    RaceDone =>
        /\ StatusCount(RaceEvent, "yes") = 1
        /\ StatusCount(RaceEvent, "waitlist") = NumRacers - 1

\* C3: a join by a user whose RSVP is already yes decides yes, leaves the
\* stored status yes, leaves exactly one row for the pair and leaves the
\* confirmed count unchanged, whatever the capacity and the confirmed count.
C3_JoinIdempotent ==
    [][\A p \in DOMAIN pc :
          (JoinWrite(p) /\ UserStatuses(req[p].eventId, req[p].userId) = {"yes"}) =>
              /\ finalStatus[p] = "yes"
              /\ UserStatuses(req[p].eventId, req[p].userId)' = {"yes"}
              /\ RowCount(req[p].eventId, req[p].userId)' = 1
              /\ StatusCount(req[p].eventId, "yes")' = StatusCount(req[p].eventId, "yes")]_vars

\* C4: in every reachable state there is at most one RSVP row per
\* (event, user) pair.
C4_OneRowPerPair ==
    \A e \in EventIds, u \in Users : RowCount(e, u) <= 1

\* C5: a join executed without interleaving writes (and will return) yes
\* exactly when the event's capacity is null or the number of yes rows is
\* strictly less than the capacity, and waitlist otherwise.
C5_JoinDecisionRule ==
    [][\A p \in DOMAIN pc :
          JoinWrite(p) =>
              LET e == req[p].eventId
                  room == \/ Capacity(e) = Null
                          \/ StatusCount(e, "yes") < Capacity(e)[1]
              IN  /\ finalStatus[p] = (IF room THEN "yes" ELSE "waitlist")
                  /\ UserStatuses(e, req[p].userId)' = {finalStatus[p]}]_vars

\* C6: no automatic promotion.  A step of one user's request never changes
\* another user's rows, so a leave by a confirmed user leaves every
\* waitlisted user at waitlist; a waitlisted row becomes yes only by the
\* write of that user's own new join, and that join writes yes whenever
\* confirmed < capacity at that time.
C6_NoAutomaticPromotion ==
    [][/\ \A p \in DOMAIN pc :
            LeaveUpdateRsvp(p) =>
                OtherRsvps(req[p].eventId, req[p].userId)'
                    = OtherRsvps(req[p].eventId, req[p].userId)
       /\ \A e \in EventIds, u \in Users :
            (UserStatuses(e, u) = {"waitlist"} /\ UserStatuses(e, u)' # {"waitlist"}) =>
                \E p \in DOMAIN pc :
                    /\ req[p].eventId = e /\ req[p].userId = u
                    /\ \/ JoinWrite(p)
                       \/ LeaveUpdateRsvp(p) /\ UserStatuses(e, u)' = {"cancelled"}
       /\ \A p \in DOMAIN pc :
            (/\ JoinWrite(p)
             /\ UserStatuses(req[p].eventId, req[p].userId) = {"waitlist"}
             /\ Capacity(req[p].eventId) # Null
             /\ StatusCount(req[p].eventId, "yes") < Capacity(req[p].eventId)[1]) =>
                /\ finalStatus[p] = "yes"
                /\ UserStatuses(req[p].eventId, req[p].userId)' = {"yes"}]_vars

\* A user has left and been answered, the event now has a free slot, and
\* a user waitlisted before is still at waitlist.
C6_Witness ==
    \E p \in DOMAIN pc, u \in Users :
        /\ pc[p] = "done" /\ req[p].status = "no" /\ res[p].code = 200
        /\ UserStatuses(req[p].eventId, req[p].userId) = {"cancelled"}
        /\ u # req[p].userId
        /\ UserStatuses(req[p].eventId, u) = {"waitlist"}
        /\ Capacity(req[p].eventId) # Null
        /\ StatusCount(req[p].eventId, "yes") < Capacity(req[p].eventId)[1]

\* C7: on an event of capacity C without RSVPs, when distinct users join
\* one after another, a user is written (and answered) yes exactly when
\* fewer than C users joined before, waitlist otherwise, and the confirmed
\* count is the number of users among the first C who have joined: it
\* reaches C and stays there.
C7_WaitlistOverflow ==
    /\ [](\A ev \in events :
            ev.capacity # Null =>
                /\ StatusCount(ev.id, "yes") =
                       Min(IF ev.capacity[1] < 0 THEN 0 ELSE ev.capacity[1],
                           EventRowCount(ev.id))
                /\ StatusCount(ev.id, "waitlist")
                       = EventRowCount(ev.id) - StatusCount(ev.id, "yes"))
    /\ [][\A p \in DOMAIN pc :
            (JoinWrite(p) /\ Capacity(req[p].eventId) # Null) =>
                /\ finalStatus[p] =
                       (IF EventRowCount(req[p].eventId) < Capacity(req[p].eventId)[1]
                        THEN "yes" ELSE "waitlist")
                /\ UserStatuses(req[p].eventId, req[p].userId)' = {finalStatus[p]}
                /\ EventRowCount(req[p].eventId)' = EventRowCount(req[p].eventId) + 1]_vars

\* C8: a join following a leave (the caller's row is cancelled) on an event
\* with available capacity at that time writes and returns yes, on the same
\* row: the number of rows of the pair and of every other pair is unchanged.
C8_LeaveThenJoin ==
    [][\A p \in DOMAIN pc :
          (/\ JoinWrite(p)
           /\ UserStatuses(req[p].eventId, req[p].userId) = {"cancelled"}
           /\ Available(req[p].eventId)) =>
              /\ finalStatus[p] = "yes"
              /\ UserStatuses(req[p].eventId, req[p].userId)' = {"yes"}
              /\ RowCount(req[p].eventId, req[p].userId)'
                     = RowCount(req[p].eventId, req[p].userId)
              /\ OtherRsvps(req[p].eventId, req[p].userId)'
                     = OtherRsvps(req[p].eventId, req[p].userId)]_vars

\* A join that found the caller's row cancelled has just rewritten that
\* one row to yes.
C8_Witness ==
    \E p \in DOMAIN pc :
        /\ pc[p] = "joinTrack" /\ finalStatus[p] = "yes"
        /\ existingRsvp[p] = {RsvpRow(req[p].eventId, req[p].userId, "cancelled")}
        /\ UserStatuses(req[p].eventId, req[p].userId) = {"yes"}
        /\ RowCount(req[p].eventId, req[p].userId) = 1

\* C9: while the pair of a leave request has no RSVP row, no step of that
\* request inserts or changes any row, and the request is answered
\* 200 "RSVP cancelled".
C9_LeaveWithoutRsvpIsNoOp ==
    [][\A p \in DOMAIN pc :
          (/\ req[p].status = "no" /\ InFlight(p)
           /\ pc'[p] # pc[p]
           /\ RowCount(req[p].eventId, req[p].userId) = 0) =>
              /\ eventRsvps' = eventRsvps
              /\ pc'[p] = "done" =>
                    /\ res'[p].code = 200
                    /\ res'[p].message = "RSVP cancelled"]_vars

\* A leave for a pair without a row has been answered 200 while rows of
\* other users exist, and the pair still has no row.
C9_Witness ==
    \E p \in DOMAIN pc :
        /\ pc[p] = "done" /\ req[p].status = "no"
        /\ res[p].code = 200 /\ res[p].message = "RSVP cancelled"
        /\ getEvent(req[p].eventId) # {}
        /\ RowCount(req[p].eventId, req[p].userId) = 0
        /\ EventRowCount(req[p].eventId) > 0

\* C10: every leave is answered 200, whatever the caller's status and
\* whether or not the event exists, and when it is answered every row the
\* pair has is cancelled (so a second leave leaves it cancelled).
C10_LeaveAlwaysSafe ==
    [][\A p \in DOMAIN pc :
          (req[p].status = "no" /\ InFlight(p) /\ pc'[p] = "done") =>
              /\ res'[p].code = 200
              /\ UserStatuses(req[p].eventId, req[p].userId)' \subseteq {"cancelled"}]_vars

\* A second leave has found the caller's row already cancelled, has written
\* cancelled again and is about to answer; the row is cancelled.
C10_Witness ==
    \E p \in DOMAIN pc :
        /\ pc[p] = "leaveGetEvent" /\ req[p].status = "no"
        /\ existingRsvp[p] = {RsvpRow(req[p].eventId, req[p].userId, "cancelled")}
        /\ UserStatuses(req[p].eventId, req[p].userId) = {"cancelled"}

\* C11: a join that names an event that does not exist is answered
\* 404 "Event not found" and has no effect: no RSVP row is inserted or
\* updated (an id without an event never has a row) and no notification is
\* handed to the email service.
C11_JoinUnknownEvent ==
    /\ [](\A e \in EventIds : getEvent(e) = {} => EventRowCount(e) = 0)
    /\ [][\A p \in DOMAIN pc :
            (JoinGetEvent(p) /\ getEvent(req[p].eventId) = {}) =>
                /\ pc'[p] = "done"
                /\ res'[p].code = 404 /\ res'[p].message = "Event not found"
                /\ eventRsvps' = eventRsvps
                /\ mail'[p] = "none" /\ delivered' = delivered]_vars

\* A join for an id without an event has been answered 404; the id has no
\* row and the handler sent no notification.
C11_Witness ==
    \E p \in DOMAIN pc :
        /\ pc[p] = "done" /\ req[p].route = "rsvp" /\ req[p].status = "yes"
        /\ res[p].code = 404 /\ res[p].message = "Event not found"
        /\ getEvent(req[p].eventId) = {}
        /\ EventRowCount(req[p].eventId) = 0
        /\ mail[p] = "none"

\* C12: a join of an event whose stored status is cancelled is rejected
\* with a client error: no step of it creates or updates an RSVP row, and
\* it is answered with a 4xx status.
Cancelled(eventId) == \E r \in getEvent(eventId) : r.statusEnum = "cancelled"

C12_JoinCancelledEventRejected ==
    [][\A p \in DOMAIN pc :
          (JoinStep(p) /\ Cancelled(req[p].eventId)) =>
              /\ eventRsvps' = eventRsvps
              /\ pc'[p] = "done" => res'[p].code \in 400..499]_vars

\* C13: no step removes an RSVP row: the number of rows of every
\* (event, user) pair never decreases, so the set of pairs that have a row
\* only grows; and the write of a leave leaves the caller's rows in place,
\* all with status cancelled.
C13_RowsNeverRemoved ==
    [][/\ \A e \in EventIds, u \in Users : RowCount(e, u)' >= RowCount(e, u)
       /\ \A p \in DOMAIN pc :
            LeaveUpdateRsvp(p) =>
                /\ RowCount(req[p].eventId, req[p].userId)' >= 1
                /\ RowCount(req[p].eventId, req[p].userId)'
                       = RowCount(req[p].eventId, req[p].userId)
                /\ UserStatuses(req[p].eventId, req[p].userId)' = {"cancelled"}]_vars

\* A leave has found the caller's yes row and has written: the pair still
\* has its row, now cancelled.
C13_Witness ==
    \E p \in DOMAIN pc :
        /\ pc[p] = "leaveTrack" /\ req[p].status = "no"
        /\ existingRsvp[p] = {RsvpRow(req[p].eventId, req[p].userId, "yes")}
        /\ RowCount(req[p].eventId, req[p].userId) = 1
        /\ UserStatuses(req[p].eventId, req[p].userId) = {"cancelled"}

\* C14: getEventRsvpCount is a pure read.  For every event id, confirmed is
\* the number of rows of the event with status yes and waitlist the number
\* with status waitlist (cancelled rows are in neither); an id without rows,
\* and so an id without an event (0 is never an event's id), yields {0, 0};
\* and the step of a join
\* that reads the count changes neither table.
RECURSIVE RowsOfUsers(_, _, _)
RowsOfUsers(eventId, status, users) ==
    IF users = {} THEN 0
    ELSE LET u == CHOOSE x \in users : TRUE
         IN  CopiesIn(RsvpRow(eventId, u, status), eventRsvps)
                 + RowsOfUsers(eventId, status, users \ {u})

C14_LedgerIsPureRead ==
    /\ [](\A e \in EventIds \cup {0} :
            /\ getEventRsvpCount(e).confirmed = RowsOfUsers(e, "yes", Users)
            /\ getEventRsvpCount(e).waitlist = RowsOfUsers(e, "waitlist", Users)
            /\ (getEvent(e) = {} \/ EventRowCount(e) = 0) =>
                   getEventRsvpCount(e) = [confirmed |-> 0, waitlist |-> 0])
    /\ [][\A p \in DOMAIN pc :
            JoinCount(p) => (events' = events /\ eventRsvps' = eventRsvps)]_vars

\* A join has just read the count of a capacity-1 event whose only row is
\* cancelled: the count is {0, 0} and the join decided yes.
C14_Witness ==
    \E p \in DOMAIN pc :
        /\ pc[p] = "joinGetUserRsvp"
        /\ Capacity(req[p].eventId) = Some(1)
        /\ RowsOfUsers(req[p].eventId, "cancelled", Users) >= 1
        /\ getEventRsvpCount(req[p].eventId) = [confirmed |-> 0, waitlist |-> 0]
        /\ finalStatus[p] = "yes"

\* C15: a join whose read of the confirmed count has been invalidated by a
\* racing writer does not commit its stale decision: the status a join
\* writes is the one the decision rule of the code gives on the capacity and
\* the confirmed count stored at the time of the write.
C15_StaleDecisionNotCommitted ==
    [][\A p \in DOMAIN pc :
          JoinWrite(p) =>
              finalStatus[p] = FinalStatus(Capacity(req[p].eventId),
                                           getEventRsvpCount(req[p].eventId).confirmed)]_vars

\* C16: the race event has capacity 1 and confirmed = capacity - 1 = 0, and
\* NumRacers distinct users without an RSVP join concurrently.  In every
\* interleaving the confirmed count never exceeds the capacity by more than
\* NumRacers - 1, and when all are answered every racer has one row and the
\* overshoot is between 0 and NumRacers - 1.  The interleaving in which all
\* read before any writes, and all are recorded yes, is the witness.
C16_RaceOvershootBound ==
    /\ StatusCount(RaceEvent, "yes") <= Capacity(RaceEvent)[1] + (NumRacers - 1)
    /\ RaceDone =>
          /\ StatusCount(RaceEvent, "yes") >= Capacity(RaceEvent)[1]
          /\ \A p \in DOMAIN pc : RowCount(RaceEvent, req[p].userId) = 1
          /\ StatusCount(RaceEvent, "yes") + StatusCount(RaceEvent, "waitlist") = NumRacers

\* Every racer has been answered yes and holds a yes row: the confirmed
\* count exceeds the capacity by NumRacers - 1.
C16_Witness ==
    /\ RaceDone
    /\ \A p \in DOMAIN pc :
          /\ res[p].code = 200 /\ res[p].status = "yes"
          /\ UserStatuses(RaceEvent, req[p].userId) = {"yes"}
    /\ StatusCount(RaceEvent, "yes") = Capacity(RaceEvent)[1] + (NumRacers - 1)

\* C17: a notification that fails neither rolls back nor fails the RSVP.
\* The step in which a handler hands its email to the service leaves every
\* RSVP row as written and answers 200, a join with the status it decided
\* and wrote, while the send is still pending; and the step in which the
\* send then fails changes no RSVP row and no response.
C17_NotificationFailureTolerated ==
    [][/\ \A p \in DOMAIN pc :
             (/\ JoinTrack(p) \/ LeaveGetEvent(p)
              /\ mail'[p] # "none") =>
                 /\ delivered' = "pending"
                 /\ eventRsvps' = eventRsvps
                 /\ pc'[p] = "done" /\ res'[p].code = 200
                 /\ JoinTrack(p) => res'[p].status = finalStatus[p]
       /\ (EmailSettles /\ delivered' = "failed") =>
             /\ eventRsvps' = eventRsvps
             /\ res' = res /\ pc' = pc]_vars

\* A join has been answered 200 yes, its confirmation email failed, and the
\* caller's row is yes.
C17_Witness ==
    \E p \in DOMAIN pc :
        /\ pc[p] = "done" /\ req[p].status = "yes"
        /\ mail[p] = "confirmed" /\ delivered = "failed"
        /\ res[p].code = 200 /\ res[p].status = "yes"
        /\ UserStatuses(req[p].eventId, req[p].userId) = {"yes"}

\* C18: the outcome of a join agrees with what it stored.  The status the
\* join writes to the caller's row is the status it returns; the message is
\* "RSVP confirmed" exactly when that status is yes and "Added to waitlist"
\* exactly when it is waitlist; and the notification is of kind confirmed
\* exactly when it is yes and of kind waitlist exactly when it is waitlist.
C18_OutcomeConsistent ==
    [][\A p \in DOMAIN pc :
          /\ JoinWrite(p) =>
                /\ finalStatus[p] \in {"yes", "waitlist"}
                /\ CopiesIn(RsvpRow(req[p].eventId, req[p].userId, finalStatus[p]),
                            eventRsvps') >= 1
                /\ finalStatus'[p] = finalStatus[p]
          /\ JoinTrack(p) =>
                /\ res'[p].code = 200
                /\ res'[p].status = finalStatus[p]
                /\ res'[p].message = "RSVP confirmed" <=> res'[p].status = "yes"
                /\ res'[p].message = "Added to waitlist" <=> res'[p].status = "waitlist"
                /\ mail'[p] = "confirmed" <=> res'[p].status = "yes"
                /\ mail'[p] = "waitlist" <=> res'[p].status = "waitlist"]_vars

\* A join of a full event has been answered waitlist, "Added to waitlist",
\* with a waitlist notification, and the caller's row is waitlist.
C18_Witness ==
    \E p \in DOMAIN pc :
        /\ pc[p] = "done" /\ req[p].status = "yes"
        /\ res[p].code = 200 /\ res[p].status = "waitlist"
        /\ res[p].message = "Added to waitlist"
        /\ mail[p] = "waitlist"
        /\ UserStatuses(req[p].eventId, req[p].userId) = {"waitlist"}

C20_UpdateKeepsWithinCapacity ==
    Quiescent =>
        \A e \in EventIds :
            (getEvent(e) # {} /\ Capacity(e) # Null) =>
                StatusCount(e, "yes") <= Capacity(e)[1]

\* C21: every stored event capacity is null or a positive integer: no
\* sequence of accepted event-create and event-update requests stores a
\* capacity of 0 or less.
C21_CapacityNullOrPositive ==
    \A ev \in events : ev.capacity = Null \/ ev.capacity[1] >= 1

\* C22: a DELETE or PATCH of an existing event by an authenticated user
\* who is not its creator is answered 403, leaves the event records and
\* every RSVP row unchanged and hands no notification to the email service.
C22_OnlyCreatorManages ==
    [][\A p \in DOMAIN pc, u \in Users, e \in EventIds :
          (/\ requests' = requests + 1
           /\ req'[p].route \in {"delete", "patch"}
           /\ req'[p].userId = u /\ req'[p].eventId = e
           /\ getEvent(e) # {}
           /\ \A r \in getEvent(e) : r.creatorUserId # u
           /\ \/ ManageCancelRequest(p, u, e)
              \/ \E body \in PatchBodies : ManageUpdateRequest(p, u, e, body)) =>
              /\ res'[p].code = 403
              /\ events' = events
              /\ eventRsvps' = eventRsvps
              /\ mail'[p] = "none"
              /\ delivered' = delivered]_vars

\* A user who did not create the event asked to cancel it while it had
\* RSVP rows, and was refused; the event is still active.
C22_Witness ==
    \E p \in DOMAIN pc :
        /\ pc[p] = "done" /\ req[p].route = "delete" /\ res[p].code = 403
        /\ EventRowCount(req[p].eventId) > 0
        /\ \A r \in getEvent(req[p].eventId) :
              r.statusEnum = "active" /\ r.creatorUserId # req[p].userId

\* The number of storage calls a handler still has to await at most.
Remaining(at) ==
    CASE at = "joinGetEvent" -> 5
      [] at = "joinCount" -> 4
      [] at = "joinGetUserRsvp" -> 3
      [] at = "joinWrite" -> 2
      [] at = "joinTrack" -> 1
      [] at = "leaveGetUserRsvp" -> 4
      [] at = "leaveUpdateRsvp" -> 3
      [] at = "leaveTrack" -> 2
      [] at = "leaveGetEvent" -> 1
      [] OTHER -> 0

\* C23: every join or leave terminates, whatever runs beside it: a handler
\* in flight can always take its next step (it waits on no other request),
\* every step brings it closer to its response (at most five storage
\* calls), and under fair scheduling of the handlers it is answered.
C23_EveryRequestTerminates ==
    /\ [](\A p \in DOMAIN pc : InFlight(p) => ENABLED Step(p))
    /\ [][\A p \in DOMAIN pc :
             pc'[p] # pc[p] => Remaining(pc'[p]) < Remaining(pc[p])]_vars
    /\ \A p \in Racers : InFlight(p) ~> (pc[p] = "done" /\ res[p].code # 0)

\* Joins and leaves that ran beside each other have all been answered.
C23_Witness ==
    /\ \A p \in DOMAIN pc : pc[p] = "done" /\ res[p].code = 200
    /\ \E p \in DOMAIN pc : req[p].status = "no"
    /\ \E p, q \in DOMAIN pc : p # q /\ req[p].status = "yes" /\ req[q].status = "yes"
    /\ StatusCount(RaceEvent, "cancelled") >= 1

\* C24: the waitlist confers no priority: when the event has a free slot, a
\* join processed without interleaving is written yes whoever sends it, a
\* newcomer included, and every other row, the rows of the users waitlisted
\* earlier included, stays as it is.
C24_WaitlistNoPriority ==
    [][\A p \in DOMAIN pc :
          (JoinWrite(p) /\ Available(req[p].eventId)) =>
              /\ UserStatuses(req[p].eventId, req[p].userId)' = {"yes"}
              /\ OtherRsvps(req[p].eventId, req[p].userId)' =
                     OtherRsvps(req[p].eventId, req[p].userId)]_vars

\* The confirmed attendee has left, the newcomer's join has been written
\* yes, and the users waitlisted before are all still waitlisted.
C24_Witness ==
    /\ UserStatuses(RaceEvent, 1) = {"cancelled"}
    /\ UserStatuses(RaceEvent, NumRacers) = {"yes"}
    /\ \A u \in 2..(NumRacers - 1) : UserStatuses(RaceEvent, u) = {"waitlist"}
    /\ \E p \in DOMAIN pc : pc[p] = "joinTrack" /\ req[p].userId = NumRacers

\* C25: with joins and leaves executed one at a time and no update of the
\* capacity, starting from events without RSVPs, every reachable state has
\* at most C yes rows for every event with a non-null capacity C.
C25_SerialSafety ==
    \A ev \in events :
        ev.capacity # Null => getEventRsvpCount(ev.id).confirmed <= ev.capacity[1]

\* The handler is past its write and the write changed the caller's RSVP:
\* it inserted a row, or the row carried another status when it was
\* written (which need not be the status the handler had read).
HasChangedRsvp(p) == modified[p]

\* C26: whenever a join or leave is answered with an error (400, 404 or
\* 500), the request has inserted or modified no RSVP row; in particular a
\* failure after the RSVP write does not turn into an error response.
C26_ErrorLeavesStateUnchanged ==
    [][\A p \in DOMAIN pc :
          (/\ <<pc[p], res[p]>> # <<pc'[p], res'[p]>>
           /\ pc'[p] = "done"
           /\ res'[p].code \in {400, 404, 500}) =>
              /\ ~HasChangedRsvp(p)
              /\ eventRsvps' = eventRsvps]_vars

\* C27: a step of a join or leave by user u on event e changes only RSVP
\* rows of the pair (e, u): the rows of other users and of other events and
\* all event records, capacities included, stay as they are.
C27_Frame ==
    [][\A p \in DOMAIN pc :
          Step(p) =>
              /\ OtherRsvps(req[p].eventId, req[p].userId)' =
                     OtherRsvps(req[p].eventId, req[p].userId)
              /\ events' = events]_vars

\* A leave has just rewritten its caller's row to cancelled while another
\* user's row of the same event and the caller's own row of another event
\* are there, as they were.
C27_Witness ==
    \E p \in DOMAIN pc :
        /\ pc[p] = "leaveTrack" /\ modified[p]
        /\ UserStatuses(req[p].eventId, req[p].userId) = {"cancelled"}
        /\ \E r \in DOMAIN OtherRsvps(req[p].eventId, req[p].userId) :
              r.eventId = req[p].eventId /\ r.userId # req[p].userId
        /\ \E r \in DOMAIN OtherRsvps(req[p].eventId, req[p].userId) :
              r.eventId # req[p].eventId /\ r.userId = req[p].userId /\ r.statusEnum = "yes"

\* C28: a leave hands a cancellation notification to the email service only
\* if it found an RSVP row of the caller that was not yet cancelled and set
\* it to cancelled; a leave by a user without RSVP row sends none.
C28_CancellationOnlyOnTransition ==
    [][\A p \in DOMAIN pc :
          (LeaveGetEvent(p) /\ mail'[p] = "cancelled") =>
              /\ existingRsvp[p] # {}
              /\ HasChangedRsvp(p)
              /\ UserStatuses(req[p].eventId, req[p].userId) = {"cancelled"}]_vars

\* C29: without interleaving, a leave lowers the confirmed count of its
\* event by exactly 1 if the caller's status was yes and leaves it unchanged
\* otherwise; a join raises the confirmed count by at most 1 and never
\* lowers it; and the waitlist count changes only through the caller's row.
C29_LedgerDeltas ==
    [][\A p \in DOMAIN pc :
          LET e == req[p].eventId
              u == req[p].userId
              others(st) == StatusCount(e, st) - Cardinality(UserStatuses(e, u) \cap {st})
          IN  /\ LeaveUpdateRsvp(p) =>
                    getEventRsvpCount(e).confirmed' =
                        getEventRsvpCount(e).confirmed
                            - (IF UserStatuses(e, u) = {"yes"} THEN 1 ELSE 0)
              /\ (LeaveStep(p) /\ ~LeaveUpdateRsvp(p)) =>
                    getEventRsvpCount(e).confirmed' = getEventRsvpCount(e).confirmed
              /\ JoinStep(p) =>
                    /\ getEventRsvpCount(e).confirmed' >= getEventRsvpCount(e).confirmed
                    /\ getEventRsvpCount(e).confirmed' <= getEventRsvpCount(e).confirmed + 1
              /\ Step(p) => others("waitlist")' = others("waitlist")]_vars

\* C30: every RSVP row ever stored has a status among yes, waitlist and
\* cancelled; a request with status no stores cancelled, never no; and a
\* request whose status is neither yes nor no is answered 400 without any
\* RSVP row being touched.
C30_StatusDomain ==
    [][/\ \A r \in DOMAIN eventRsvps' : r.statusEnum \in {"yes", "waitlist", "cancelled"}
       /\ \A p \in DOMAIN pc :
             (LeaveUpdateRsvp(p) /\ req[p].status = "no") =>
                 UserStatuses(req[p].eventId, req[p].userId)' = {"cancelled"}
       /\ \A p \in DOMAIN pc, u \in Users, e \in EventIds, s \in BodyStatuses \ {"yes", "no"} :
             (requests' = requests + 1 /\ Request(p, u, e, s)) =>
                 /\ pc'[p] = "done" /\ res'[p].code = 400
                 /\ eventRsvps' = eventRsvps]_vars

\* A user at yes sent status no, and the row now reads cancelled.
C30_Witness ==
    \E p \in DOMAIN pc :
        /\ pc[p] = "leaveGetEvent" /\ req[p].status = "no"
        /\ \E r \in existingRsvp[p] : r.statusEnum = "yes"
        /\ UserStatuses(req[p].eventId, req[p].userId) = {"cancelled"}
====
